---- MODULE Spec2Model ----
(***************************************************************************)
(* Container Integration Test (CIT) engine of dbuild: the run lifecycle of *)
(* dbuild/test.py (_test_variant, run), its cleanup registry and SIGTERM   *)
(* handler (_emergency_cleanup), and the process exit path of cli.main.    *)
(*                                                                         *)
(* Python's None is modelled as 0 for the port and "" for strings: the     *)
(* code merges with `or`, which treats 0 and "" exactly like None.         *)
(*                                                                         *)
(* Spec is the whole run.  The other specifications call one function on   *)
(* its own, over all its inputs: SpecEC (_emergency_cleanup), SpecResolve  *)
(* (_resolve_mode), SpecProbe (_test_port, _test_health), SpecMerge (the   *)
(* configuration merge of _test_variant), SpecCapture (screenshot.capture) *)
(* and SpecVerify (verify.verify).                                         *)
(***************************************************************************)
EXTENDS Integers, Sequences, FiniteSets, TLC

\* ---------------------------------------------------------------- bounds
NumVariants == 2
MaxWait == 3
MaxTargets == 3
MaxMinWait == 11

\* ------------------------------------------------------ program constants
DefaultPort == 8080
ReadyPollInterval == 3
PortPollInterval == 1
HealthPollInterval == 2
InterruptedStatus == 130
GenericFailureStatus == 1
StabilityCeiling == 10
PollsPerSecond == 2
BlankThreshold == 3
EdgeThreshold == 5
SsimThreshold == 95

DefaultHealth == "/"

\* sample inputs: values a configuration / an image label can carry (0, "" = unset)
TestPorts == {0, 9090}
TestHealths == {"", "/cfg"}
LabelPorts == {0, 7878}
LabelHealths == {"", "/ping"}

Modes == {"shell", "port", "health", "screenshot"}
Checks == {"shell", "port", "health", "screenshot", "verify"}
Statuses == {"pass", "fail", "skip"}

VARIABLES
    test,          \* the loaded TestConfig: mode, port, health, wait, compose
    json_output,   \* TRUE when a result artifact path was given
    variant_filter,\* run(): the tag to test (0 = None, i = the tag of variant i)
    variantLog,    \* the calls of _test_variant made by run(), with how each ended
    pc,            \* position of the single control-flow thread
    v,             \* index of the variant being tested (position in cfg.variants)
    tested,        \* run(): number of variants tested
    worst_rc,      \* run(): first non-zero return code
    mode,          \* _test_variant: effective mode
    port,          \* _test_variant: merged port (0 = None)
    health,        \* _test_variant: merged health path ("" = None)
    results,       \* _test_variant: per-check status
    rc,            \* _test_variant: local rc
    pending,       \* return value or exception in flight through the finally block
    elapsed,       \* loop counter of the polling loop in progress
    registry,      \* _cleanup_targets
    workload,      \* external state of each variant's container / stack
    startInFlight, \* the podman child process of run_detached / compose_up is executing
    signalled,     \* SIGTERM was delivered and its handler ran
    sigAt,         \* position the handler interrupted
    calls,         \* log of the podman calls that start or tear down a workload
    artifact,      \* the result artifact on disk: who wrote it last and its result field
    exitStatus,    \* process exit status (-1 while running)
    executed,      \* checks called so far in the current run of _test_variant
    readyOutcome,  \* how _wait_for_ready ended in the current run
    everRegistered,\* variants whose CleanupTarget was appended to the registry
    raises,        \* fault injection: for each registry position, the teardown call that raises
    ecInput,       \* the registry as it was when _emergency_cleanup was called directly
    ecDone,        \* _emergency_cleanup was called directly and returned
    fn,            \* a single function called directly: its name and arguments
    loc,           \* the locals of that function while it executes
    ret,           \* its return value ("none" until it returns)
    written,       \* the documents the current run of _test_variant has written
    shotGap        \* the capability found unavailable by the run's screenshot check

vars == <<test, json_output, variant_filter, variantLog, pc, v, tested, worst_rc,
          mode, port, health, results,
          rc, pending, elapsed, registry, workload, startInFlight, signalled,
          sigAt, calls, artifact, exitStatus, executed, readyOutcome, everRegistered,
          raises, ecInput, ecDone, fn, loc, ret, written, shotGap>>

\* ------------------------------------------------------------- helpers
Variants == 1..NumVariants

\* Python `a or b` on (int | None)
OrInt_SecondFirst(a, b) == IF b # 0 THEN b ELSE a
OrInt(a, b) == IF a # 0 THEN a ELSE b
\* Python `a or b` on (str | None)
OrStr(a, b) == IF a # "" THEN a ELSE b

ModeRank(m) ==
    CASE m = "shell" -> 1
      [] m = "port" -> 2
      [] m = "health" -> 3
      [] m = "screenshot" -> 4
      [] OTHER -> 0

CheckRank(c) ==
    CASE c = "shell" -> 1
      [] c = "port" -> 2
      [] c = "health" -> 3
      [] c = "screenshot" -> 4
      [] OTHER -> 4

\* _downgrade_mode
DowngradeMode_Stepwise(m, p, h) ==
    IF m = "screenshot"
    THEN IF h # "" THEN "health"
         ELSE IF p # 0 THEN "port"
         ELSE "shell"
    ELSE m
DowngradeMode(m, p, h) ==
    IF m = "screenshot"
    THEN IF h # "" \/ p # 0 THEN "health"
         ELSE IF p # 0 THEN "port"
         ELSE "shell"
    ELSE m

\* _resolve_mode; depsMissing is the truth of `_check_screenshot_deps() != []`
ResolveMode_PortFirst(m, p, h, baseline, depsMissing) ==
    LET auto == IF m = ""
                THEN IF baseline THEN "screenshot"
                     ELSE IF p # 0 THEN "port"
                     ELSE IF h # "" THEN "health"
                     ELSE "shell"
                ELSE m
    IN IF auto = "screenshot" /\ depsMissing
       THEN DowngradeMode(auto, p, h)
       ELSE auto
ResolveMode(m, p, h, baseline, depsMissing) ==
    LET auto == IF m = ""
                THEN IF baseline THEN "screenshot"
                     ELSE IF h # "" THEN "health"
                     ELSE IF p # 0 THEN "port"
                     ELSE "shell"
                ELSE m
    IN IF auto = "screenshot" /\ depsMissing
       THEN DowngradeMode(auto, p, h)
       ELSE auto

\* what sock.connect_ex returns: 0 when the connection opened, else an errno
\* (111 ECONNREFUSED, 11 EAGAIN after the 2 s socket timeout)
ConnectResults == {0, 11, 111}

\* `if result == 0` (line 278)
ConnectOpens_NotRefused(result) == result # 111
ConnectOpens(result) == result = 0

\* what one HTTP request ends in: a response status, or 0 when the request raised
\* one of the exceptions caught at line 324 (no response)
HttpOutcomes == {0, 200, 404, 500, 502, 503}

\* `if code not in (502, 503)` reached only when a response arrived (lines 308-325)
HealthReady_OnlyBelow500(code) == code # 0 /\ code < 500
HealthReady(code) == code # 0 /\ code \notin {502, 503}

\* _write_json_result: the document `data` (the image is named by its variant, the
\* timestamp is a string in the strftime format of line 416); `**results` contributes
\* whatever keys the results dict has, and "result" is set last
ArtifactFields == {"image", "mode", "timestamp", "result"}
WriteJsonResult_FromShell(image, m, res, passed) ==
    [k \in ArtifactFields \cup DOMAIN res |->
        CASE k = "result" -> IF res["shell"] = "pass" THEN "pass" ELSE "fail"
          [] k = "image" -> image
          [] k = "mode" -> m
          [] k = "timestamp" -> "%Y-%m-%dT%H:%M:%SZ"
          [] OTHER -> res[k]]
WriteJsonResult(image, m, res, passed) ==
    [k \in ArtifactFields \cup DOMAIN res |->
        CASE k = "result" -> IF passed THEN "pass" ELSE "fail"
          [] k = "image" -> image
          [] k = "mode" -> m
          [] k = "timestamp" -> "%Y-%m-%dT%H:%M:%SZ"
          [] OTHER -> res[k]]

\* no artifact has been written
NoArtifact == [variant |-> 0, result |-> ""]

\* results dict as initialised by _test_variant
InitialResults == [c \in Checks |-> "skip"]

\* cleanup_entry = (compose_file or None, container_name or None)
\* (file 1 is .daemonless/compose.yaml; the container name is unique per variant; 0 = None)
ComposeYaml == 1
CleanupEntry(isCompose, variant) ==
    [compose_file |-> IF isCompose THEN ComposeYaml ELSE 0,
     container_name |-> IF isCompose THEN 0 ELSE variant]

\* _cleanup_targets.append(cleanup_entry)
RegisterTarget_Dropped(reg, entry) == reg
RegisterTarget(reg, entry) == Append(reg, entry)

\* `if cleanup_entry in _cleanup_targets: _cleanup_targets.remove(cleanup_entry)`
RECURSIVE RemoveFirst(_, _)
RemoveFirst(reg, entry) ==
    IF reg = <<>> THEN <<>>
    ELSE IF Head(reg) = entry THEN Tail(reg)
    ELSE <<Head(reg)>> \o RemoveFirst(Tail(reg), entry)

DeregisterTarget(reg, entry) == RemoveFirst(reg, entry)

InRegistry(reg, entry) == \E i \in 1..Len(reg) : reg[i] = entry

\* podman.stop / podman.rm / podman.compose_down acting on the external workloads
AfterStop(w, name) ==
    [x \in DOMAIN w |-> IF x = name /\ w[x] = "running" THEN "exited" ELSE w[x]]
AfterRm(w, name) ==
    [x \in DOMAIN w |-> IF x = name THEN "absent" ELSE w[x]]
AfterComposeDown(w) == [x \in DOMAIN w |-> "absent"]

\* one logged podman call: its argument, who made it ("run", "handler", "atexit")
\* and the variant under test when it was made
Call(op, arg, by, variant) == [op |-> op, arg |-> arg, by |-> by, v |-> variant]

\* ------------------------------------------------- _emergency_cleanup
\* The body of the try block for one registered target.  `fault` names the podman
\* call that raises for this target ("none" when no call raises); a call that
\* raises has no effect and the calls after it in the try body are not made.
TargetTeardown(entry, w, fault, by, cur) ==
    IF entry.compose_file # 0
    THEN [calls |-> <<Call("compose_down", entry.compose_file, by, cur)>>,
          w |-> IF fault = "compose_down" THEN w ELSE AfterComposeDown(w),
          raised |-> fault = "compose_down"]
    ELSE IF entry.container_name # 0
    THEN IF fault = "stop"
         THEN [calls |-> <<Call("stop", entry.container_name, by, cur)>>,
               w |-> w, raised |-> TRUE]
         ELSE [calls |-> <<Call("stop", entry.container_name, by, cur),
                           Call("rm", entry.container_name, by, cur)>>,
               w |-> IF fault = "rm"
                     THEN AfterStop(w, entry.container_name)
                     ELSE AfterRm(AfterStop(w, entry.container_name), entry.container_name),
               raised |-> fault = "rm"]
    ELSE [calls |-> <<>>, w |-> w, raised |-> FALSE]

\* `except Exception: pass` inside the loop body
TeardownErrorEscapes_NoTry == TRUE
TeardownErrorEscapes == FALSE

\* `_cleanup_targets.clear()` (line 50)
AfterClear_Kept(reg) == reg
AfterClear(reg) == <<>>

\* the for loop over _cleanup_targets followed by _cleanup_targets.clear()
RECURSIVE CleanupLoop(_, _, _, _, _, _, _)
CleanupLoop(reg, i, w, log, faults, by, cur) ==
    IF i > Len(reg)
    THEN [calls |-> log, w |-> w, registry |-> AfterClear(reg), propagated |-> FALSE]
    ELSE LET r == TargetTeardown(reg[i], w, faults[i], by, cur)
         IN IF r.raised /\ TeardownErrorEscapes
            THEN [calls |-> log \o r.calls, w |-> r.w, registry |-> reg, propagated |-> TRUE]
            ELSE CleanupLoop(reg, i + 1, r.w, log \o r.calls, faults, by, cur)

EmergencyCleanup(reg, w, faults, by, cur) == CleanupLoop(reg, 1, w, <<>>, faults, by, cur)

NoFaults(reg) == [i \in 1..Len(reg) |-> "none"]

\* ------------------------------------------------------------ Init
\* no function is being called on its own
NoCall ==
    /\ fn = [name |-> "none"]
    /\ loc = <<>>
    /\ ret = "none"

TestConfigs ==
    [mode : Modes \cup {""}, port : TestPorts, health : TestHealths,
     wait : 0..MaxWait, compose : BOOLEAN]

\* args.variant: None, the tag of one of the variants, or a tag no variant has
VariantFilters == 0..(NumVariants + 1)

\* `variant_filter and variant.tag != variant_filter` (line 668): the variant is skipped
FilterSkips(filter, tag) == filter # 0 /\ tag # filter

Init ==
    /\ test \in TestConfigs
    /\ json_output \in BOOLEAN
    /\ variant_filter \in VariantFilters
    /\ variantLog = <<>>
    /\ pc = "run_loop"
    /\ v = 1
    /\ tested = 0
    /\ worst_rc = 0
    /\ mode = ""
    /\ port = 0
    /\ health = ""
    /\ results = InitialResults
    /\ rc = 1
    /\ pending = "none"
    /\ elapsed = 0
    /\ registry = <<>>
    /\ workload = [x \in Variants |-> "absent"]
    /\ startInFlight = FALSE
    /\ signalled = FALSE
    /\ sigAt = "none"
    /\ calls = <<>>
    /\ artifact = NoArtifact
    /\ exitStatus = -1
    /\ executed = {}
    /\ readyOutcome = "none"
    /\ everRegistered = {}
    /\ raises = <<>>
    /\ ecInput = <<>>
    /\ ecDone = FALSE
    /\ NoCall
    /\ written = <<>>
    /\ shotGap = "none"

cfgVars == <<test, json_output, variant_filter>>
loopVars == <<v, tested, worst_rc, variantLog>>
mergedVars == <<mode, port, health>>
sigVars == <<signalled, sigAt>>
faultVars == <<raises, ecInput, ecDone>>
callVars == <<fn, loc, ret>>
envVars == <<workload, startInFlight>>

\* the statements of _test_variant that lie inside `try:` (lines 519-613)
TryBlock == {"start", "shell", "ip", "ready", "port", "health", "screenshot"}
\* the statements of the `finally:` block (lines 615-630)
FinallyBlock == {"fin_write", "fin_teardown", "fin_rm", "fin_dereg"}

\* first statement of the finally block: `if json_output: _write_json_result(...)`
FinallyEntry == IF json_output THEN "fin_write" ELSE "fin_teardown"

\* ------------------------------------------- _test_variant, lines 459-496
\* label_info: stack mode reads no labels (line 459), else _read_labels(build_ref)
LabelInfo(isCompose, labels) ==
    IF isCompose THEN [port |-> 0, health |-> "", jail_annotations |-> <<>>] ELSE labels

\* `if mode in ("port", "health", "screenshot"): if port is None: port = 8080`
PortForChecks(m, p) ==
    IF m \in {"port", "health", "screenshot"} /\ p = 0 THEN DefaultPort ELSE p

\* `if mode in ("health", "screenshot"): if health is None: health = "/"`
HealthForChecks(m, h) ==
    IF m \in {"health", "screenshot"} /\ h = "" THEN DefaultHealth ELSE h

\* a dict as a function on its keys: d[k] = val
DictSet(d, k, val) == [x \in DOMAIN d \cup {k} |-> IF x = k THEN val ELSE d[x]]

\* `for ann in test.annotations: if "=" in ann: k, v = ann.split("=", 1); annotations[k] = v`
\* (an entry is the text before the first "=", the text after it, and whether it has one)
RECURSIVE ConfigAnnotations(_, _)
ConfigAnnotations(d, anns) ==
    IF anns = <<>> THEN d
    ELSE LET ann == Head(anns)
         IN ConfigAnnotations(IF ann.eq THEN DictSet(d, ann.k, ann.val) ELSE d, Tail(anns))

\* annotations = {}; annotations.update(label jail annotations); then the config's
MergeAnnotations(labelAnn, cfgAnn) == ConfigAnnotations(labelAnn, cfgAnn)

\* ------------------------------------------- _test_variant, lines 436-516
\* Merge labels and config, resolve the mode, fill in defaults, initialise the
\* results and register the CleanupTarget.  composeEnv: "ok", "missing"
\* (podman-compose or compose.yaml not found) or "tag_fails" (podman.tag raises).
TestVariantBegin ==
    /\ pc = "run_loop"
    /\ v <= NumVariants
    /\ ~FilterSkips(variant_filter, v)
    /\ variantLog' = Append(variantLog, [variant |-> v, ended |-> "running"])
    /\ \E composeEnv \in {"ok", "missing", "tag_fails"},
          labelPort \in LabelPorts, labelHealth \in LabelHealths,
          baseline \in BOOLEAN, depsMissing \in BOOLEAN :
        IF test.compose /\ composeEnv # "ok"
        THEN /\ pc' = "var_exit"
             /\ pending' = IF composeEnv = "missing" THEN "ret1" ELSE "PodmanError"
             /\ UNCHANGED <<mergedVars, results, rc, registry, everRegistered,
                            executed, readyOutcome, elapsed>>
        ELSE LET label_info == LabelInfo(test.compose,
                                 [port |-> labelPort, health |-> labelHealth,
                                  jail_annotations |-> <<>>])
                 mport == OrInt(test.port, label_info.port)
                 mhealth == OrStr(test.health, label_info.health)
                 m == ResolveMode(test.mode, mport, mhealth, baseline, depsMissing)
                 entry == CleanupEntry(test.compose, v)
             IN /\ mode' = m
                /\ port' = PortForChecks(m, mport)
                /\ health' = HealthForChecks(m, mhealth)
                /\ results' = InitialResults
                /\ rc' = 1
                /\ registry' = RegisterTarget(registry, entry)
                /\ everRegistered' = everRegistered \cup
                       (IF InRegistry(registry', entry) THEN {v} ELSE {})
                /\ executed' = {}
                /\ readyOutcome' = "none"
                /\ elapsed' = 0
                /\ pending' = "none"
                /\ pc' = "registered"
    /\ written' = <<>>
    /\ shotGap' = "none"
    /\ UNCHANGED <<cfgVars, v, tested, worst_rc, envVars, sigVars, calls, artifact,
                   exitStatus, faultVars, callVars>>

\* line 668-669: `continue` for a variant the filter excludes
VariantSkip ==
    /\ pc = "run_loop"
    /\ v <= NumVariants
    /\ FilterSkips(variant_filter, v)
    /\ v' = v + 1
    /\ UNCHANGED <<cfgVars, tested, worst_rc, variantLog, pc, mergedVars, results, rc,
                   pending, elapsed, registry, envVars, sigVars, calls, artifact,
                   exitStatus, executed, readyOutcome, everRegistered, faultVars,
                   callVars, written, shotGap>>

\* ------------------------------------------- _test_variant, lines 519-531
\* podman.compose_up / podman.run_detached is called: the podman child runs.
StartCall ==
    /\ pc = "registered"
    /\ pc' = "start"
    /\ startInFlight' = TRUE
    /\ calls' = Append(calls, IF test.compose
                               THEN Call("compose_up", ComposeYaml, "run", v)
                               ELSE Call("run_detached", v, "run", v))
    /\ UNCHANGED <<cfgVars, loopVars, mergedVars, results, rc, pending, elapsed, registry,
                   workload, sigVars, artifact, exitStatus, executed, readyOutcome,
                   everRegistered, faultVars, callVars, written, shotGap>>

\* `assert port is not None` followed by the call of _test_port (lines 557-559)
EnterPortTest ==
    IF port = 0
    THEN /\ pc' = FinallyEntry
         /\ pending' = "AssertionError"
         /\ UNCHANGED <<elapsed, executed>>
    ELSE /\ pc' = "port"
         /\ pending' = pending
         /\ elapsed' = 0
         /\ executed' = executed \cup {"port"}

\* `assert health is not None` followed by the call of _test_health (lines 576-578)
EnterHealthTest ==
    IF health = ""
    THEN /\ pc' = FinallyEntry
         /\ pending' = "AssertionError"
         /\ UNCHANGED <<elapsed, executed>>
    ELSE /\ pc' = "health"
         /\ pending' = pending
         /\ elapsed' = 0
         /\ executed' = executed \cup {"health"}

\* The start call returns: the workload was created.  Stack mode goes straight to
\* the port test (lines 534, 546 and 554 are all guarded by `not compose_mode`).
StartReturn ==
    /\ pc = "start"
    /\ workload[v] # "absent"
    /\ startInFlight' = FALSE
    /\ IF test.compose
       THEN EnterPortTest
       ELSE /\ pc' = "shell"
            /\ executed' = executed \cup {"shell"}
            /\ UNCHANGED <<pending, elapsed>>
    /\ UNCHANGED <<cfgVars, loopVars, mergedVars, results, rc, registry, workload,
                   sigVars, calls, artifact, exitStatus, readyOutcome, everRegistered,
                   faultVars, callVars, written, shotGap>>

\* The start call raises PodmanError (podman._run with check=True).
StartRaise ==
    /\ pc = "start"
    /\ startInFlight' = FALSE
    /\ pending' = "PodmanError"
    /\ pc' = FinallyEntry
    /\ UNCHANGED <<cfgVars, loopVars, mergedVars, results, rc, elapsed, registry, workload,
                   sigVars, calls, artifact, exitStatus, executed, readyOutcome,
                   everRegistered, faultVars, callVars, written, shotGap>>

\* ------------------------------------------- _test_shell and lines 533-543
\* The container must still be running and `exec echo ok` must succeed.
ShellTest ==
    /\ pc = "shell"
    /\ \E execOk \in BOOLEAN :
        IF workload[v] = "running" /\ execOk
        THEN /\ results' = [results EXCEPT !["shell"] = "pass"]
             /\ IF mode = "shell"
                THEN /\ rc' = 0
                     /\ pending' = "ret0"
                     /\ pc' = FinallyEntry
                ELSE /\ pc' = "ip"
                     /\ UNCHANGED <<rc, pending>>
        ELSE /\ results' = [results EXCEPT !["shell"] = "fail"]
             /\ pending' = "ret1"
             /\ pc' = FinallyEntry
             /\ UNCHANGED rc
    /\ UNCHANGED <<cfgVars, loopVars, mergedVars, elapsed, registry, envVars, sigVars,
                   calls, artifact, exitStatus, executed, readyOutcome, everRegistered,
                   faultVars, callVars, written, shotGap>>

\* the return value of _wait_for_ready is discarded by its caller (line 555)
ReadyWaitFatal_OnTimeout(outcome) == outcome = "timeout"
ReadyWaitFatal(outcome) == FALSE

\* _wait_for_ready has returned (outcome: "matched", "timeout" or "exited")
ReadyReturn(outcome) ==
    /\ readyOutcome' = outcome
    /\ IF ReadyWaitFatal(outcome)
       THEN /\ pc' = FinallyEntry
            /\ pending' = "ret1"
            /\ UNCHANGED <<elapsed, executed>>
       ELSE EnterPortTest

\* ------------------------------------------- lines 545-555: podman.inspect_ip
\* inspect_ip raises PodmanError, returns "" or returns the address.
IpResolve ==
    /\ pc = "ip"
    /\ \E got \in {"raise", "empty", "ip"} :
        /\ got = "ip" => workload[v] # "absent"
        /\ CASE got = "raise" ->
                  /\ pending' = "PodmanError"
                  /\ pc' = FinallyEntry
                  /\ UNCHANGED <<elapsed, executed, readyOutcome>>
             [] got = "empty" ->
                  /\ pending' = "ret1"
                  /\ pc' = FinallyEntry
                  /\ UNCHANGED <<elapsed, executed, readyOutcome>>
             [] OTHER ->
                  IF mode \in {"health", "screenshot"}
                  THEN /\ pc' = "ready"
                       /\ elapsed' = 0
                       /\ UNCHANGED <<pending, executed, readyOutcome>>
                  ELSE /\ EnterPortTest
                       /\ UNCHANGED readyOutcome
    /\ UNCHANGED <<cfgVars, loopVars, mergedVars, results, rc, registry, envVars, sigVars,
                   calls, artifact, exitStatus, everRegistered,
                   faultVars, callVars, written, shotGap>>

\* ------------------------------------------- _wait_for_ready, lines 227-245
\* One iteration of `while elapsed < timeout`.
ReadyPoll ==
    /\ pc = "ready"
    /\ elapsed < test.wait
    /\ IF workload[v] # "running"
       THEN ReadyReturn("exited")
       ELSE \E matched \in BOOLEAN :
              IF matched
              THEN ReadyReturn("matched")
              ELSE /\ elapsed' = elapsed + ReadyPollInterval
                   /\ UNCHANGED <<pc, pending, executed, readyOutcome>>
    /\ UNCHANGED <<cfgVars, loopVars, mergedVars, results, rc, registry, envVars, sigVars,
                   calls, artifact, exitStatus, everRegistered,
                   faultVars, callVars, written, shotGap>>

\* The loop condition fails: "No ready signal ... (continuing anyway)".
ReadyTimeout ==
    /\ pc = "ready"
    /\ elapsed >= test.wait
    /\ ReadyReturn("timeout")
    /\ UNCHANGED <<cfgVars, loopVars, mergedVars, results, rc, registry, envVars, sigVars,
                   calls, artifact, exitStatus, everRegistered,
                   faultVars, callVars, written, shotGap>>

\* ------------------------------------------- _test_port and lines 559-574
\* One iteration of `while elapsed < timeout`: a connection opens only on a
\* running workload.
PortPoll ==
    /\ pc = "port"
    /\ elapsed < test.wait
    /\ \E result \in ConnectResults :
        /\ ConnectOpens(result) => workload[v] = "running"
        /\ IF ConnectOpens(result)
           THEN /\ results' = [results EXCEPT !["port"] = "pass"]
                /\ IF mode = "port"
                   THEN /\ rc' = 0
                        /\ pending' = "ret0"
                        /\ pc' = FinallyEntry
                        /\ UNCHANGED <<elapsed, executed>>
                   ELSE /\ EnterHealthTest
                        /\ UNCHANGED rc
           ELSE /\ elapsed' = elapsed + PortPollInterval
                /\ UNCHANGED <<pc, pending, results, rc, executed>>
    /\ UNCHANGED <<cfgVars, loopVars, mergedVars, registry, envVars, sigVars, calls,
                   artifact, exitStatus, readyOutcome, everRegistered,
                   faultVars, callVars, written, shotGap>>

PortTimeout_NoReturn ==
    /\ pc = "port"
    /\ elapsed >= test.wait
    /\ results' = [results EXCEPT !["port"] = "fail"]
    /\ EnterHealthTest
    /\ UNCHANGED <<cfgVars, loopVars, mergedVars, rc, registry, envVars, sigVars,
                   calls, artifact, exitStatus, readyOutcome, everRegistered,
                   faultVars, callVars, written, shotGap>>

\* the loop condition fails: "Port ... not listening", `return 1` (lines 286, 559-568)
PortTimeout ==
    /\ pc = "port"
    /\ elapsed >= test.wait
    /\ results' = [results EXCEPT !["port"] = "fail"]
    /\ pending' = "ret1"
    /\ pc' = FinallyEntry
    /\ UNCHANGED <<cfgVars, loopVars, mergedVars, rc, elapsed, registry, envVars, sigVars,
                   calls, artifact, exitStatus, executed, readyOutcome, everRegistered,
                   faultVars, callVars, written, shotGap>>

\* ------------------------------------------- _test_health and lines 578-593
\* One iteration: a response other than 502/503 arrives only from a running workload.
HealthPoll ==
    /\ pc = "health"
    /\ elapsed < test.wait
    /\ \E code \in HttpOutcomes :
        /\ HealthReady(code) => workload[v] = "running"
        /\ IF HealthReady(code)
           THEN /\ results' = [results EXCEPT !["health"] = "pass"]
                /\ IF mode = "health"
                   THEN /\ rc' = 0
                        /\ pending' = "ret0"
                        /\ pc' = FinallyEntry
                        /\ UNCHANGED executed
                   ELSE /\ pc' = "screenshot"
                        /\ executed' = executed \cup {"screenshot"}
                        /\ UNCHANGED <<rc, pending>>
                /\ UNCHANGED elapsed
           ELSE /\ elapsed' = elapsed + HealthPollInterval
                /\ UNCHANGED <<pc, pending, results, rc, executed>>
    /\ UNCHANGED <<cfgVars, loopVars, mergedVars, registry, envVars, sigVars, calls,
                   artifact, exitStatus, readyOutcome, everRegistered,
                   faultVars, callVars, written, shotGap>>

HealthTimeout ==
    /\ pc = "health"
    /\ elapsed >= test.wait
    /\ results' = [results EXCEPT !["health"] = "fail"]
    /\ pending' = "ret1"
    /\ pc' = FinallyEntry
    /\ UNCHANGED <<cfgVars, loopVars, mergedVars, rc, elapsed, registry, envVars, sigVars,
                   calls, artifact, exitStatus, executed, readyOutcome, everRegistered,
                   faultVars, callVars, written, shotGap>>

\* ------------------------------------------- _test_screenshot and lines 596-613
\* What can be unavailable when the screenshot check runs: the selenium package
\* (import of dbuild.screenshot), scikit-image (import of dbuild.verify), the
\* rendering engine (chrome) or its driver (chromedriver).
ScreenshotGaps == {"selenium", "skimage", "chrome", "chromedriver"}

\* How the call of _test_screenshot can end.  An ImportError is caught and returned as
\* (False, msg) (lines 348-356).  capture builds webdriver.Chrome before its try block
\* (screenshot.py line 58): without engine or driver the constructor raises and the
\* exception leaves capture, _test_screenshot and the try block of _test_variant.
\* With everything available the check passes, fails, or capture raises before its
\* try block for another reason (lines 58-66).
ScreenshotOutcomes(gap) ==
    CASE gap \in {"selenium", "skimage"} -> {"fail"}
      [] gap \in {"chrome", "chromedriver"} -> {"raise"}
      [] OTHER -> {"pass", "fail", "raise"}

ScreenshotTest ==
    /\ pc = "screenshot"
    /\ \E gap \in ScreenshotGaps \cup {"none"} : \E got \in ScreenshotOutcomes(gap) :
        /\ got = "pass" => workload[v] = "running"
        /\ shotGap' = gap
        /\ CASE got = "pass" ->
                  /\ results' = [results EXCEPT !["screenshot"] = "pass", !["verify"] = "pass"]
                  /\ rc' = 0
                  /\ pending' = "ret0"
             [] got = "fail" ->
                  /\ results' = [results EXCEPT !["screenshot"] = "fail"]
                  /\ pending' = "ret1"
                  /\ UNCHANGED rc
             [] OTHER ->
                  /\ pending' = "WebDriverException"
                  /\ UNCHANGED <<results, rc>>
    /\ pc' = FinallyEntry
    /\ UNCHANGED <<cfgVars, loopVars, mergedVars, elapsed, registry, envVars, sigVars,
                   calls, artifact, exitStatus, executed, readyOutcome, everRegistered,
                   faultVars, callVars, written>>

\* ------------------------------------------- the finally block, lines 615-630
\* `if json_output: _write_json_result(...)`: open() succeeds and the artifact is
\* replaced, or it raises OSError, which leaves the finally block at once.
FinWrite ==
    /\ pc = "fin_write"
    /\ \E opened \in BOOLEAN :
        IF opened
        THEN LET data == WriteJsonResult(v, mode, results, rc = 0)
             IN /\ written' = Append(written, data)
                /\ artifact' = [variant |-> v, result |-> data["result"]]
                /\ pc' = "fin_teardown"
                /\ UNCHANGED pending
        ELSE /\ pending' = "OSError"
             /\ pc' = "var_exit"
             /\ UNCHANGED <<artifact, written>>
    /\ UNCHANGED <<cfgVars, loopVars, mergedVars, results, rc, elapsed, registry, envVars,
                   sigVars, calls, exitStatus, executed, readyOutcome, everRegistered,
                   faultVars, callVars, shotGap>>

\* `podman.compose_down(...)` for a stack, else `podman.stop(container_name)`
FinTeardown ==
    /\ pc = "fin_teardown"
    /\ IF test.compose
       THEN /\ calls' = Append(calls, Call("compose_down", ComposeYaml, "run", v))
            /\ workload' = AfterComposeDown(workload)
            /\ pc' = "fin_dereg"
       ELSE /\ calls' = Append(calls, Call("stop", v, "run", v))
            /\ workload' = AfterStop(workload, v)
            /\ pc' = "fin_rm"
    /\ UNCHANGED <<cfgVars, loopVars, mergedVars, results, rc, pending, elapsed, registry,
                   startInFlight, sigVars, artifact, exitStatus, executed, readyOutcome,
                   everRegistered, faultVars, callVars, written, shotGap>>

\* `podman.rm(container_name)`
FinRm ==
    /\ pc = "fin_rm"
    /\ calls' = Append(calls, Call("rm", v, "run", v))
    /\ workload' = AfterRm(workload, v)
    /\ pc' = "fin_dereg"
    /\ UNCHANGED <<cfgVars, loopVars, mergedVars, results, rc, pending, elapsed, registry,
                   startInFlight, sigVars, artifact, exitStatus, executed, readyOutcome,
                   everRegistered, faultVars, callVars, written, shotGap>>

\* deregister, then leave _test_variant with the pending return value or exception
FinDeregister ==
    /\ pc = "fin_dereg"
    /\ registry' = DeregisterTarget(registry, CleanupEntry(test.compose, v))
    /\ pc' = "var_exit"
    /\ UNCHANGED <<cfgVars, loopVars, mergedVars, results, rc, pending, elapsed, envVars,
                   sigVars, calls, artifact, exitStatus, executed, readyOutcome,
                   everRegistered, faultVars, callVars, written, shotGap>>

\* ------------------------------------------- run(), lines 667-685, and cli.main
\* status cli.main exits with when `exc` propagates out of the dispatcher:
\* SystemExit is no Exception and keeps its code, anything else is caught (exit 1)
ExitStatusFor(exc) == IF exc = "SystemExit" THEN InterruptedStatus ELSE GenericFailureStatus

\* _test_variant returned: run() records the code and goes on to the next variant
VariantReturn ==
    /\ pc = "var_exit"
    /\ pending \in {"ret0", "ret1"}
    /\ LET code == IF pending = "ret0" THEN 0 ELSE 1
       IN worst_rc' = IF code # 0 /\ worst_rc = 0 THEN code ELSE worst_rc
    /\ tested' = tested + 1
    /\ v' = v + 1
    /\ variantLog' = [variantLog EXCEPT ![Len(variantLog)].ended = pending]
    /\ pending' = "none"
    /\ pc' = "run_loop"
    \* the locals of _test_variant are gone
    /\ mode' = "" /\ port' = 0 /\ health' = ""
    /\ results' = InitialResults /\ rc' = 1 /\ elapsed' = 0
    /\ executed' = {} /\ readyOutcome' = "none" /\ written' = <<>> /\ shotGap' = "none"
    /\ UNCHANGED <<cfgVars, registry, envVars, sigVars, calls, artifact, exitStatus,
                   everRegistered, faultVars, callVars>>

\* _test_variant raised: the exception leaves run() and reaches cli.main
VariantRaise ==
    /\ pc = "var_exit"
    /\ pending \notin {"ret0", "ret1"}
    /\ exitStatus' = ExitStatusFor(pending)
    /\ pc' = "exiting"
    /\ UNCHANGED <<cfgVars, loopVars, mergedVars, results, rc, pending, elapsed, registry,
                   envVars, sigVars, calls, artifact, executed, readyOutcome,
                   everRegistered, faultVars, callVars, written, shotGap>>

\* the for loop is exhausted: run() returns worst_rc and cli.main calls sys.exit(rc)
RunReturn ==
    /\ pc = "run_loop"
    /\ v > NumVariants
    /\ exitStatus' = IF tested = 0 THEN 0 ELSE worst_rc
    /\ pc' = "exiting"
    /\ UNCHANGED <<cfgVars, loopVars, mergedVars, results, rc, pending, elapsed, registry,
                   envVars, sigVars, calls, artifact, executed, readyOutcome,
                   everRegistered, faultVars, callVars, written, shotGap>>

\* interpreter shutdown: atexit runs _emergency_cleanup (line 55)
ProcessExit ==
    /\ pc = "exiting"
    /\ LET ec == EmergencyCleanup(registry, workload, NoFaults(registry), "atexit", v)
       IN /\ registry' = ec.registry
          /\ workload' = ec.w
          /\ calls' = calls \o ec.calls
    /\ pc' = "exited"
    /\ UNCHANGED <<cfgVars, loopVars, mergedVars, results, rc, pending, elapsed,
                   startInFlight, sigVars, artifact, exitStatus, executed, readyOutcome,
                   everRegistered, faultVars, callVars, written, shotGap>>

\* ------------------------------------------- SIGTERM, line 54
\* The handler runs between two steps of the main flow: _emergency_cleanup(), then
\* exit(130) raises SystemExit at the interrupted position.
Sigterm ==
    /\ ~signalled
    /\ pc \notin {"exiting", "exited"}
    /\ LET ec == EmergencyCleanup(registry, workload, NoFaults(registry), "handler", v)
       IN /\ registry' = ec.registry
          /\ workload' = ec.w
          /\ calls' = calls \o ec.calls
    /\ signalled' = TRUE
    /\ sigAt' = pc
    /\ pc' = "sig_raise"
    /\ UNCHANGED <<cfgVars, loopVars, mergedVars, results, rc, pending, elapsed,
                   startInFlight, artifact, exitStatus, executed, readyOutcome,
                   everRegistered, faultVars, callVars, written, shotGap>>

\* where SystemExit goes from the interrupted position: inside `try:` the finally
\* block runs first; anywhere else it propagates to the process exit
SystemExitLands(at) == IF at \in TryBlock THEN FinallyEntry ELSE "exiting"

\* SystemExit unwinds: subprocess.run kills a podman child still executing
SignalUnwind ==
    /\ pc = "sig_raise"
    /\ startInFlight' = FALSE
    /\ pending' = "SystemExit"
    /\ pc' = SystemExitLands(sigAt)
    /\ exitStatus' = IF pc' = "exiting" THEN ExitStatusFor("SystemExit") ELSE exitStatus
    /\ UNCHANGED <<cfgVars, loopVars, mergedVars, results, rc, elapsed, registry, workload,
                   sigVars, calls, artifact, executed, readyOutcome, everRegistered,
                   faultVars, callVars, written, shotGap>>

\* ------------------------------------------- the external workload
\* the podman child creates and starts the container / the stack
WorkloadUp ==
    /\ startInFlight
    /\ workload[v] = "absent"
    /\ workload' = [workload EXCEPT ![v] = "running"]
    /\ UNCHANGED <<cfgVars, loopVars, mergedVars, results, rc, pending, elapsed, registry,
                   startInFlight, sigVars, calls, artifact, exitStatus, pc, executed,
                   readyOutcome, everRegistered, faultVars, callVars, written, shotGap>>

\* the workload's process exits on its own
WorkloadExit ==
    /\ pc \in TryBlock
    /\ workload[v] = "running"
    /\ workload' = [workload EXCEPT ![v] = "exited"]
    /\ UNCHANGED <<cfgVars, loopVars, mergedVars, results, rc, pending, elapsed, registry,
                   startInFlight, sigVars, calls, artifact, exitStatus, pc, executed,
                   readyOutcome, everRegistered, faultVars, callVars, written, shotGap>>

Next ==
    \/ TestVariantBegin
    \/ VariantSkip
    \/ StartCall
    \/ StartReturn
    \/ StartRaise
    \/ ShellTest
    \/ IpResolve
    \/ ReadyPoll
    \/ ReadyTimeout
    \/ PortPoll
    \/ PortTimeout
    \/ HealthPoll
    \/ HealthTimeout
    \/ ScreenshotTest
    \/ FinWrite
    \/ FinTeardown
    \/ FinRm
    \/ FinDeregister
    \/ VariantReturn
    \/ VariantRaise
    \/ RunReturn
    \/ ProcessExit
    \/ Sigterm
    \/ SignalUnwind
    \/ WorkloadUp
    \/ WorkloadExit

Spec == Init /\ [][Next]_vars

\* ------------------------------------------------------------------------
\* _emergency_cleanup called directly on a registry of N targets, some of whose
\* teardown calls raise (the situation of TestEmergencyCleanup).
ECEntries(i) == {[compose_file |-> i, container_name |-> 0],
                 [compose_file |-> 0, container_name |-> i]}
ECFaults(entry) == IF entry.compose_file # 0 THEN {"none", "compose_down"}
                   ELSE {"none", "stop", "rm"}

InitEC ==
    /\ \E n \in 0..MaxTargets :
        /\ registry \in [1..n -> UNION {ECEntries(i) : i \in 1..n}]
        /\ \A i \in 1..n : registry[i] \in ECEntries(i)
        /\ raises \in [1..n -> {"none", "compose_down", "stop", "rm"}]
        /\ \A i \in 1..n : raises[i] \in ECFaults(registry[i])
    /\ test = [mode |-> "", port |-> 0, health |-> "", wait |-> 0, compose |-> FALSE]
    /\ json_output = FALSE
    /\ variant_filter = 0
    /\ variantLog = <<>>
    /\ pc = "ec_call"
    /\ v = 0
    /\ tested = 0
    /\ worst_rc = 0
    /\ mode = ""
    /\ port = 0
    /\ health = ""
    /\ results = InitialResults
    /\ rc = 1
    /\ pending = "none"
    /\ elapsed = 0
    /\ workload = [x \in 1..MaxTargets |-> "running"]
    /\ startInFlight = FALSE
    /\ signalled = FALSE
    /\ sigAt = "none"
    /\ calls = <<>>
    /\ artifact = NoArtifact
    /\ exitStatus = -1
    /\ executed = {}
    /\ readyOutcome = "none"
    /\ everRegistered = {}
    /\ ecInput = registry
    /\ ecDone = FALSE
    /\ fn = [name |-> "_emergency_cleanup"]
    /\ loc = [owned |-> {}, before |-> 0]
    /\ ret = "none"
    /\ written = <<>>
    /\ shotGap = "none"

\* the run's own teardown of the target it registered first, as the finally block of
\* _test_variant performs it (lines 620-630): compose_down or stop and rm, then the
\* deregistration; what is left is the registry _emergency_cleanup will be called on
OwnTeardown ==
    /\ pc = "ec_call"
    /\ registry # <<>>
    /\ loc.owned = {}
    /\ LET entry == Head(registry)
           t == TargetTeardown(entry, workload, "none", "run", 0)
       IN /\ calls' = calls \o t.calls
          /\ workload' = t.w
          /\ registry' = DeregisterTarget(registry, entry)
          /\ loc' = [loc EXCEPT !.owned = {entry}]
    /\ raises' = Tail(raises)
    /\ ecInput' = registry'
    /\ UNCHANGED <<cfgVars, loopVars, mergedVars, results, rc, pending, elapsed,
                   startInFlight, sigVars, artifact, exitStatus, executed, readyOutcome,
                   everRegistered, ecDone, fn, ret, pc, written, shotGap>>

CallEmergencyCleanup ==
    /\ pc = "ec_call"
    /\ LET ec == EmergencyCleanup(registry, workload, raises, "handler", 0)
       IN /\ registry' = ec.registry
          /\ workload' = ec.w
          /\ calls' = calls \o ec.calls
          /\ pending' = IF ec.propagated THEN "Exception" ELSE "none"
    /\ loc' = [loc EXCEPT !.before = Len(calls')]
    /\ ecDone' = TRUE
    /\ pc' = "ec_done"
    /\ UNCHANGED <<cfgVars, loopVars, mergedVars, results, rc, elapsed, startInFlight,
                   sigVars, artifact, exitStatus, executed, readyOutcome, everRegistered,
                   raises, ecInput, fn, ret, written, shotGap>>

\* a further _emergency_cleanup: a second signal, or the atexit hook (line 55)
CallEmergencyCleanupAgain ==
    /\ pc = "ec_done"
    /\ LET ec == EmergencyCleanup(registry, workload, raises, "atexit", 0)
       IN /\ registry' = ec.registry
          /\ workload' = ec.w
          /\ calls' = calls \o ec.calls
          /\ pending' = IF ec.propagated THEN "Exception" ELSE pending
    /\ pc' = "ec_again"
    /\ UNCHANGED <<cfgVars, loopVars, mergedVars, results, rc, elapsed, startInFlight,
                   sigVars, artifact, exitStatus, executed, readyOutcome, everRegistered,
                   faultVars, callVars, written, shotGap>>

NextEC ==
    \/ OwnTeardown
    \/ CallEmergencyCleanup
    \/ CallEmergencyCleanupAgain

SpecEC == InitEC /\ [][NextEC]_vars

\* ------------------------------------------------------------------------
\* Single functions called directly, as the unit tests of the repository call
\* them.  No run is in progress: the state of run() and _test_variant is at rest.
NoRun ==
    /\ test = [mode |-> "", port |-> 0, health |-> "", wait |-> 0, compose |-> FALSE]
    /\ json_output = FALSE
    /\ variant_filter = 0
    /\ variantLog = <<>>
    /\ v = 0
    /\ tested = 0
    /\ worst_rc = 0
    /\ mode = ""
    /\ port = 0
    /\ health = ""
    /\ results = InitialResults
    /\ rc = 1
    /\ pending = "none"
    /\ elapsed = 0
    /\ registry = <<>>
    /\ workload = [x \in Variants |-> "absent"]
    /\ startInFlight = FALSE
    /\ signalled = FALSE
    /\ sigAt = "none"
    /\ calls = <<>>
    /\ artifact = NoArtifact
    /\ exitStatus = -1
    /\ executed = {}
    /\ readyOutcome = "none"
    /\ everRegistered = {}
    /\ raises = <<>>
    /\ ecInput = <<>>
    /\ ecDone = FALSE
    /\ written = <<>>
    /\ shotGap = "none"

runVars == <<cfgVars, loopVars, mergedVars, results, rc, pending, elapsed, registry,
             envVars, sigVars, calls, artifact, exitStatus, executed, readyOutcome,
             everRegistered, faultVars, written, shotGap>>

\* ---------------------------------------------------- _resolve_mode called directly
\* (TestResolveMode): any requested mode, port, health path, baseline and
\* availability of the screenshot dependencies.
ResolveArgs ==
    [name : {"_resolve_mode"}, mode : Modes \cup {""},
     port : TestPorts \cup LabelPorts, health : TestHealths \cup LabelHealths,
     baseline : BOOLEAN, depsMissing : BOOLEAN]

InitResolve ==
    /\ fn \in ResolveArgs
    /\ loc = <<>>
    /\ ret = "none"
    /\ pc = "fn_call"
    /\ NoRun

CallResolveMode ==
    /\ pc = "fn_call"
    /\ fn.name = "_resolve_mode"
    /\ ret' = ResolveMode(fn.mode, fn.port, fn.health, fn.baseline, fn.depsMissing)
    /\ pc' = "fn_done"
    /\ UNCHANGED <<fn, loc, runVars>>

NextResolve == CallResolveMode

SpecResolve == InitResolve /\ [][NextResolve]_vars

\* ------------------------------------- _test_port and _test_health called directly
\* (TestTestPort, TestTestHealth).  loc.elapsed is the local `elapsed`; loc.attempts
\* records, for every connection attempt, the value of `elapsed` when it was made
\* and what came back.
ProbeArgs == [name : {"_test_port", "_test_health"}, timeout : 0..MaxWait]

InitProbe ==
    /\ fn \in ProbeArgs
    /\ loc = [elapsed |-> 0, attempts |-> <<>>]
    /\ ret = "none"
    /\ pc = "fn_call"
    /\ NoRun

\* one iteration of `while elapsed < timeout` of _test_port (lines 273-284)
TestPortAttempt ==
    /\ pc = "fn_call"
    /\ fn.name = "_test_port"
    /\ loc.elapsed < fn.timeout
    /\ \E result \in ConnectResults :
        LET tried == Append(loc.attempts, [at |-> loc.elapsed, got |-> result])
        IN IF ConnectOpens(result)
           THEN /\ loc' = [loc EXCEPT !.attempts = tried]
                /\ ret' = "True"
                /\ pc' = "fn_done"
           ELSE /\ loc' = [elapsed |-> loc.elapsed + PortPollInterval, attempts |-> tried]
                /\ UNCHANGED <<ret, pc>>
    /\ UNCHANGED <<fn, runVars>>

\* the loop condition fails: `return False` (lines 286-287)
TestPortGiveUp ==
    /\ pc = "fn_call"
    /\ fn.name = "_test_port"
    /\ loc.elapsed >= fn.timeout
    /\ ret' = "False"
    /\ pc' = "fn_done"
    /\ UNCHANGED <<fn, loc, runVars>>

\* one iteration of `while elapsed < timeout` of _test_health (lines 307-328)
TestHealthAttempt ==
    /\ pc = "fn_call"
    /\ fn.name = "_test_health"
    /\ loc.elapsed < fn.timeout
    /\ \E code \in HttpOutcomes :
        LET tried == Append(loc.attempts, [at |-> loc.elapsed, got |-> code])
        IN IF HealthReady(code)
           THEN /\ loc' = [loc EXCEPT !.attempts = tried]
                /\ ret' = "True"
                /\ pc' = "fn_done"
           ELSE /\ loc' = [elapsed |-> loc.elapsed + HealthPollInterval, attempts |-> tried]
                /\ UNCHANGED <<ret, pc>>
    /\ UNCHANGED <<fn, runVars>>

\* the loop condition fails: `return False` (lines 330-331)
TestHealthGiveUp ==
    /\ pc = "fn_call"
    /\ fn.name = "_test_health"
    /\ loc.elapsed >= fn.timeout
    /\ ret' = "False"
    /\ pc' = "fn_done"
    /\ UNCHANGED <<fn, loc, runVars>>

NextProbe ==
    \/ TestPortAttempt
    \/ TestPortGiveUp
    \/ TestHealthAttempt
    \/ TestHealthGiveUp

SpecProbe == InitProbe /\ [][NextProbe]_vars

\* --------------------------- the configuration merge of _test_variant on its own
\* (lines 459-496): any TestConfig port / health / annotations, any labels, stack or
\* standalone.  Annotation keys are the two jail labels below; a config entry is
\* "key=value" or a bare word without "=".
AnnKeys == {"allow.mlock", "allow.sysvipc"}
LabelAnnotations == UNION {[ks -> {"true"}] : ks \in SUBSET AnnKeys}
ConfigEntries == [k : AnnKeys, val : {"true", "false"}, eq : {TRUE}]
                     \cup [k : {"allow.mlock"}, val : {""}, eq : {FALSE}]
ConfigAnnotationLists == {<<>>} \cup {<<a>> : a \in ConfigEntries}
                            \cup {<<a, b>> : a, b \in ConfigEntries}

MergeArgs ==
    [name : {"merge"}, mode : Modes \cup {""}, port : TestPorts, health : TestHealths,
     compose : BOOLEAN, annotations : ConfigAnnotationLists,
     labelPort : LabelPorts, labelHealth : LabelHealths, labelAnn : LabelAnnotations,
     baseline : BOOLEAN, depsMissing : BOOLEAN]

InitMerge ==
    /\ fn \in MergeArgs
    /\ loc = <<>>
    /\ ret = "none"
    /\ pc = "fn_call"
    /\ NoRun

MergeConfig ==
    /\ pc = "fn_call"
    /\ fn.name = "merge"
    /\ LET label_info == LabelInfo(fn.compose,
                             [port |-> fn.labelPort, health |-> fn.labelHealth,
                              jail_annotations |-> fn.labelAnn])
           mport == OrInt(fn.port, label_info.port)
           mhealth == OrStr(fn.health, label_info.health)
           m == ResolveMode(fn.mode, mport, mhealth, fn.baseline, fn.depsMissing)
       IN ret' = [mode |-> m,
                  port |-> PortForChecks(m, mport),
                  health |-> HealthForChecks(m, mhealth),
                  label_info |-> label_info,
                  annotations |-> MergeAnnotations(label_info.jail_annotations,
                                                   fn.annotations)]
    /\ pc' = "fn_done"
    /\ UNCHANGED <<fn, loc, runVars>>

NextMerge == MergeConfig

SpecMerge == InitMerge /\ [][NextMerge]_vars

\* ----------------------------------------------- capture (dbuild/screenshot.py)
\* Time is counted in polls of the stability loop: one tick is the 0.5 s of
\* `time.sleep(0.5)` (PollsPerSecond ticks make a second).  Time passes in the sleep;
\* taking a screenshot is instantaneous at this resolution.  Frames are compared by
\* content: a frame is one of Frames, last_screen = 0 is None.
Frames == {1, 2}

CaptureArgs == [name : {"capture"}, min_wait : 0..MaxMinWait]

\* `max_stability_wait = max(10, min_wait)` (line 77), in seconds
MaxStabilityWait_Sum(min_wait) == StabilityCeiling + min_wait
MaxStabilityWait(min_wait) == IF min_wait > StabilityCeiling THEN min_wait ELSE StabilityCeiling

\* `last_screen and current_screen == last_screen and elapsed >= min_wait` (line 86);
\* elapsed is in ticks, min_wait in seconds
IsStable_IgnoresMinWait(last_screen, current_screen, ticks, min_wait) ==
    last_screen # 0 /\ current_screen = last_screen
IsStable(last_screen, current_screen, ticks, min_wait) ==
    /\ last_screen # 0
    /\ current_screen = last_screen
    /\ ticks >= min_wait * PollsPerSecond

InitCapture ==
    /\ fn \in CaptureArgs
    /\ loc = [now |-> 0, last_screen |-> 0, polls |-> 0,
              poll |-> [frame |-> 0, prev |-> 0, at |-> 0],
              stable |-> FALSE, raised |-> FALSE, saved |-> 0]
    /\ ret = "none"
    /\ pc = "fn_call"
    /\ NoRun

\* lines 47-66: the driver is built and sized before the try block; an exception
\* here leaves capture
CaptureDriverStart ==
    /\ pc = "fn_call"
    /\ fn.name = "capture"
    /\ \E ok \in BOOLEAN :
        IF ok THEN /\ pc' = "cap_get"
                   /\ UNCHANGED ret
              ELSE /\ pc' = "fn_done"
                   /\ ret' = "WebDriverException"
    /\ UNCHANGED <<fn, loc, runVars>>

\* lines 69-82: driver.get and the wait for readyState "complete"; start_time is
\* taken (tick 0); an exception is caught at line 101: `return False`
CaptureNavigate ==
    /\ pc = "cap_get"
    /\ \E ok \in BOOLEAN :
        IF ok THEN /\ pc' = "cap_loop"
                   /\ UNCHANGED <<ret, loc>>
              ELSE /\ pc' = "fn_done"
                   /\ ret' = "False"
                   /\ loc' = [loc EXCEPT !.raised = TRUE]
    /\ UNCHANGED <<fn, runVars>>

\* one iteration of `while time.time() - start_time < max_stability_wait` (lines 83-91)
CapturePoll ==
    /\ pc = "cap_loop"
    /\ loc.now < MaxStabilityWait(fn.min_wait) * PollsPerSecond
    /\ \E current_screen \in Frames \cup {0} :
        IF current_screen = 0
        THEN \* get_screenshot_as_base64 raised
             /\ pc' = "fn_done"
             /\ ret' = "False"
             /\ loc' = [loc EXCEPT !.raised = TRUE]
        ELSE LET seen == [frame |-> current_screen, prev |-> loc.last_screen,
                          at |-> loc.now]
             IN IF IsStable(loc.last_screen, current_screen, loc.now, fn.min_wait)
                THEN /\ loc' = [loc EXCEPT !.poll = seen, !.polls = @ + 1,
                                           !.stable = TRUE]
                     /\ pc' = "cap_save"
                     /\ UNCHANGED ret
                ELSE /\ loc' = [loc EXCEPT !.poll = seen, !.polls = @ + 1,
                                           !.last_screen = current_screen,
                                           !.now = @ + 1]
                     /\ UNCHANGED <<pc, ret>>
    /\ UNCHANGED <<fn, runVars>>

\* the loop condition fails: "UI did not stabilize (timeout reached)" (lines 93-97)
CaptureGiveUp ==
    /\ pc = "cap_loop"
    /\ loc.now >= MaxStabilityWait(fn.min_wait) * PollsPerSecond
    /\ pc' = "cap_save"
    /\ UNCHANGED <<fn, loc, ret, runVars>>

\* `driver.save_screenshot(output); return True` (lines 99-100): the frame on screen
\* now is written; an exception is caught at line 101
CaptureSave ==
    /\ pc = "cap_save"
    /\ \E frame \in Frames \cup {0} :
        IF frame = 0
        THEN /\ ret' = "False"
             /\ loc' = [loc EXCEPT !.raised = TRUE]
        ELSE /\ ret' = "True"
             /\ loc' = [loc EXCEPT !.saved = frame]
    /\ pc' = "fn_done"
    /\ UNCHANGED <<fn, runVars>>

NextCapture ==
    \/ CaptureDriverStart
    \/ CaptureNavigate
    \/ CapturePoll
    \/ CaptureGiveUp
    \/ CaptureSave

SpecCapture == InitCapture /\ [][NextCapture]_vars

\* ------------------------------------------------------ verify (dbuild/verify.py)
\* The image is described by what verify measures of it: whether io.imread can read
\* it, np.std of its grayscale in units of 1/255, the fraction of sobel edge pixels in
\* units of 1/1000, and (with a baseline) whether the baseline can be read and the
\* SSIM score in units of 1/100.  The sampled measures lie on both sides of each
\* threshold and on it.
VerifyArgs ==
    [name : {"verify"}, readable : BOOLEAN,
     std : {BlankThreshold - 1, BlankThreshold, BlankThreshold + 1},
     edges : {EdgeThreshold - 1, EdgeThreshold, EdgeThreshold + 1},
     baseline : {"none", "unreadable", "readable"},
     score : {SsimThreshold - 1, SsimThreshold, SsimThreshold + 1}]

\* is_blank: `np.std(gray) < BLANK_THRESHOLD / 255`
IsBlank(std) == std < BlankThreshold

\* has_ui_elements: `edge_ratio > EDGE_THRESHOLD`
HasUiElements(edges) == edges > EdgeThreshold

\* compare_images: `score >= SSIM_THRESHOLD`
SsimPassed(score) == score >= SsimThreshold

\* verify: (passed, message)
Verify(a) ==
    IF ~a.readable THEN [passed |-> FALSE, message |-> "Cannot read image"]
    ELSE IF IsBlank(a.std) THEN [passed |-> FALSE, message |-> "Image is blank"]
    ELSE IF ~HasUiElements(a.edges) THEN [passed |-> FALSE, message |-> "No UI elements"]
    ELSE IF a.baseline # "none"
    THEN IF a.baseline = "unreadable"
         THEN [passed |-> FALSE, message |-> "Cannot read baseline"]
         ELSE IF ~SsimPassed(a.score)
              THEN [passed |-> FALSE, message |-> "SSIM below threshold"]
              ELSE [passed |-> TRUE, message |-> "Screenshot matches baseline"]
    ELSE [passed |-> TRUE, message |-> "Screenshot looks valid"]

InitVerify ==
    /\ fn \in VerifyArgs
    /\ loc = <<>>
    /\ ret = "none"
    /\ pc = "fn_call"
    /\ NoRun

CallVerify ==
    /\ pc = "fn_call"
    /\ fn.name = "verify"
    /\ ret' = Verify(fn)
    /\ pc' = "fn_done"
    /\ UNCHANGED <<fn, loc, runVars>>

NextVerify == CallVerify

SpecVerify == InitVerify /\ [][NextVerify]_vars

\* ========================================================================
\* Properties
\* ========================================================================
AllCallers == {"run", "handler", "atexit"}

HasCall(op, x, bys) ==
    \E i \in 1..Len(calls) : calls[i].op = op /\ calls[i].v = x /\ calls[i].by \in bys

\* the teardown of variant x's workload was carried out by one of `bys`
TeardownPerformed(x, bys) ==
    IF test.compose
    THEN HasCall("compose_down", x, bys)
    ELSE HasCall("stop", x, bys) /\ HasCall("rm", x, bys)

\* how many times `bys` completed the teardown of variant x's workload
TeardownCount(x, bys) ==
    Cardinality({i \in 1..Len(calls) :
                    /\ calls[i].v = x
                    /\ calls[i].by \in bys
                    /\ calls[i].op \in {"compose_down", "rm"}})

FailedChecks == {c \in Checks : results[c] = "fail"}

\* C1: every exit path of a run of _test_variant that registered a CleanupTarget
\* (return, exception, cancellation) has performed the teardown of the run's
\* workload and has left the target absent from the registry.
C1_EveryExitPathTearsDown ==
    (pc \in {"var_exit", "exiting"} /\ v \in everRegistered) =>
        /\ TeardownPerformed(v, {"run", "handler"})
        /\ ~InRegistry(registry, CleanupEntry(test.compose, v))

\* C2: once the process has exited, every registered CleanupTarget was destroyed
\* exactly once, by the run's own teardown or by the termination handler, never by
\* both and never by neither.
C2_DestroyedExactlyOnce ==
    pc = "exited" =>
        \A x \in everRegistered :
            TeardownCount(x, {"run"}) + TeardownCount(x, {"handler", "atexit"}) = 1

\* C3: if SIGTERM was delivered between the registration of the run's target and its
\* deregistration, then once the process has exited the run's workload is not left
\* running and the registry is empty.
C3_NothingLeftAfterSigterm ==
    (pc = "exited" /\ signalled /\ sigAt \in {"registered"} \cup TryBlock \cup FinallyBlock) =>
        /\ workload[v] # "running"
        /\ registry = <<>>

\* C4: the CleanupTarget of a run is registered before its workload is started and
\* before any of its checks executes: no start call was made, no workload exists
\* and no check ran for a variant whose target was never registered.
C4_RegisteredBeforeStart ==
    /\ \A i \in 1..Len(calls) :
          calls[i].op \in {"run_detached", "compose_up"} => calls[i].v \in everRegistered
    /\ \A x \in Variants : workload[x] # "absent" => x \in everRegistered
    /\ executed # {} => v \in everRegistered
    /\ pc = "start" => InRegistry(registry, CleanupEntry(test.compose, v)) \/ signalled

C4_Witness ==
    /\ pc = "shell"
    /\ workload[v] = "running"
    /\ v \in everRegistered
    /\ HasCall("run_detached", v, {"run"})

\* C5: called on N registered targets, any subset of which raises during teardown,
\* _emergency_cleanup attempts the teardown of all N targets, propagates no
\* exception and ends with an empty registry.
TeardownAttempted(entry) ==
    IF entry.compose_file # 0
    THEN \E k \in 1..Len(calls) :
            calls[k].op = "compose_down" /\ calls[k].arg = entry.compose_file
    ELSE \E k \in 1..Len(calls) :
            calls[k].op = "stop" /\ calls[k].arg = entry.container_name

C5_EmergencyCleanupAttemptsAll ==
    pc = "ec_done" =>
        /\ pending = "none"
        /\ registry = <<>>
        /\ \A i \in 1..Len(ecInput) : TeardownAttempted(ecInput[i])

C5_Witness ==
    /\ pc = "ec_done"
    /\ Len(ecInput) >= 2
    /\ raises[1] # "none"
    /\ TeardownAttempted(ecInput[Len(ecInput)])
    /\ registry = <<>>

\* C6: cancellation is terminal: once SIGTERM has been handled no further check and
\* no further variant is started, the run is not resumed, and the process exits
\* with status 130.
C6_CancellationTerminal ==
    [][signalled =>
          /\ executed' \subseteq executed
          /\ v' = v
          /\ tested' = tested
          /\ pc' \notin TryBlock
          /\ (pc' = "exited" => exitStatus' = InterruptedStatus)]_vars

\* the checks of the ladder up to and including mode m that apply to the run
\* (the shell check is skipped in stack mode)
LadderUpTo(m) ==
    {c \in Modes : CheckRank(c) <= ModeRank(m) /\ ~(test.compose /\ c = "shell")}

\* C7: for every effective mode and for standalone and stack runs alike, when every
\* check of the ladder up to and including the mode succeeded, the run ends DONE with
\* return code 0, every executed check is pass and every check above the mode is skip.
C7_PassAtEffectiveMode ==
    (/\ pc = "var_exit"
     /\ v \in everRegistered
     /\ pending \in {"ret0", "ret1", "AssertionError"}
     /\ \A c \in LadderUpTo(mode) : results[c] = "pass") =>
        /\ pending = "ret0"
        /\ rc = 0
        /\ \A c \in executed : results[c] = "pass"
        /\ \A c \in Modes : CheckRank(c) > ModeRank(mode) => results[c] = "skip"

C10_ReadyTimeoutNotFatal ==
    readyOutcome = "timeout" =>
        /\ "port" \in executed
        /\ FailedChecks \subseteq {"port", "health", "screenshot"}
        /\ (pc = "var_exit" /\ pending = "ret1") => FailedChecks # {}
        /\ (pc = "var_exit" /\ pending = "ret0") =>
              \A c \in LadderUpTo(mode) : results[c] = "pass"

C10_Witness ==
    /\ readyOutcome = "timeout"
    /\ test.wait > 0
    /\ pc = "var_exit"
    /\ pending = "ret0"
    /\ results["health"] = "pass"

\* C11: with an empty requested mode and the screenshot capabilities available,
\* _resolve_mode returns screenshot if a baseline is present, else health if a health
\* path is present, else port if a port is present, else shell; so when only the
\* signal matching mode m is present the result is exactly m.
C11_AutoDetect ==
    (pc = "fn_done" /\ fn.name = "_resolve_mode" /\ fn.mode = "" /\ ~fn.depsMissing) =>
        /\ fn.baseline => ret = "screenshot"
        /\ (~fn.baseline /\ fn.health # "") => ret = "health"
        /\ (~fn.baseline /\ fn.health = "" /\ fn.port # 0) => ret = "port"
        /\ (~fn.baseline /\ fn.health = "" /\ fn.port = 0) => ret = "shell"

C11_Witness ==
    /\ pc = "fn_done"
    /\ fn.name = "_resolve_mode"
    /\ fn.mode = ""
    /\ ~fn.depsMissing
    /\ ~fn.baseline /\ fn.health = "" /\ fn.port # 0
    /\ ret = "port"

\* C12: for an explicitly requested mode m of shell, port, health, screenshot and any
\* port, health path, baseline and capability availability, _resolve_mode returns m
\* unchanged unless m is screenshot and a capability is missing; then it returns, in
\* one step, health when a health path or a port is known and shell otherwise.  The
\* effective mode never ranks above the requested one.
C12_ExplicitModeDowngrade ==
    (pc = "fn_done" /\ fn.name = "_resolve_mode" /\ fn.mode \in Modes) =>
        /\ ~(fn.mode = "screenshot" /\ fn.depsMissing) => ret = fn.mode
        /\ (fn.mode = "screenshot" /\ fn.depsMissing) =>
              /\ (fn.health # "" \/ fn.port # 0) => ret = "health"
              /\ (fn.health = "" /\ fn.port = 0) => ret = "shell"
        /\ ModeRank(ret) <= ModeRank(fn.mode)
        /\ ret \in Modes

C12_Witness ==
    /\ pc = "fn_done"
    /\ fn.name = "_resolve_mode"
    /\ fn.mode = "screenshot"
    /\ fn.depsMissing
    /\ fn.health = "" /\ fn.port # 0
    /\ ret = "health"

\* the attempts made so far by the function called directly, and those that failed
Attempts == loc.attempts
PortFailed(i) == Attempts[i].got # 0
HealthNotReady(i) == Attempts[i].got \in {0, 502, 503}

\* C13: _test_health returns healthy at the first poll whose HTTP response has any
\* status other than 502 or 503 (4xx and other 5xx included), and returns unhealthy
\* if and only if every poll within the wait-timeout ended in a connection failure
\* or a 502/503 response.
C13_HealthAnyAnswerIsHealthy ==
    fn.name = "_test_health" =>
        /\ \A i \in 1..Len(Attempts) : Attempts[i].at < fn.timeout
        /\ \A i \in 1..(Len(Attempts) - 1) : HealthNotReady(i)
        /\ (Len(Attempts) > 0 /\ ~HealthNotReady(Len(Attempts))) =>
              pc = "fn_done" /\ ret = "True"
        /\ ret = "True" => Len(Attempts) > 0 /\ ~HealthNotReady(Len(Attempts))
        /\ pc = "fn_done" =>
              (ret = "False" <=> \A i \in 1..Len(Attempts) : HealthNotReady(i))
        /\ ret = "False" => loc.elapsed >= fn.timeout

C13_Witness ==
    /\ fn.name = "_test_health"
    /\ pc = "fn_done"
    /\ ret = "True"
    /\ Len(Attempts) = 2
    /\ Attempts[1].got = 503
    /\ Attempts[2].got = 404

\* C14: _test_port attempts one TCP connection per second of its elapsed count,
\* succeeds at the first attempt at which a connection opens without making further
\* attempts, makes at most wait-timeout attempts, and reports unreachable if and only
\* if every attempt within the timeout failed.
C14_PortPolling ==
    fn.name = "_test_port" =>
        /\ \A i \in 1..Len(Attempts) : Attempts[i].at = i - 1
        /\ Len(Attempts) <= fn.timeout
        /\ \A i \in 1..(Len(Attempts) - 1) : PortFailed(i)
        /\ (Len(Attempts) > 0 /\ ~PortFailed(Len(Attempts))) =>
              pc = "fn_done" /\ ret = "True"
        /\ ret = "True" => Len(Attempts) > 0 /\ ~PortFailed(Len(Attempts))
        /\ pc = "fn_done" =>
              (ret = "False" <=> \A i \in 1..Len(Attempts) : PortFailed(i))
        /\ ret = "False" => Len(Attempts) = fn.timeout

C14_Witness ==
    /\ fn.name = "_test_port"
    /\ pc = "fn_done"
    /\ ret = "True"
    /\ Len(Attempts) = 3
    /\ Attempts[1].got = 111
    /\ Attempts[3].got = 0

\* the last "key=value" entry for key k in the config's annotation list (0 if none)
LastConfigEntry(k) ==
    LET idx == {i \in 1..Len(fn.annotations) :
                   fn.annotations[i].eq /\ fn.annotations[i].k = k}
    IN IF idx = {} THEN 0 ELSE CHOOSE i \in idx : \A j \in idx : j <= i

C16_ArtifactShape ==
    /\ Len(written) <= 1
    /\ \A i \in 1..Len(written) :
          /\ DOMAIN written[i] = {"image", "mode", "timestamp", "shell", "port",
                                  "health", "screenshot", "verify", "result"}
          /\ \A c \in {"shell", "port", "health", "screenshot", "verify"} :
                written[i][c] \in {"pass", "fail", "skip"}
          /\ written[i]["result"] \in {"pass", "fail"}
          /\ artifact = [variant |-> v, result |-> written[i]["result"]]
    /\ (pc = "var_exit" /\ pending \in {"ret0", "ret1"} /\ written # <<>>) =>
          (written[1]["result"] = "pass" <=> pending = "ret0")

C16_Witness ==
    /\ pc = "var_exit"
    /\ pending = "ret1"
    /\ Len(written) = 1
    /\ written[1]["shell"] = "pass"
    /\ written[1]["port"] = "fail"
    /\ written[1]["health"] = "skip"
    /\ written[1]["result"] = "fail"

\* C17: if the run reaches SCREENSHOT_CHECK and the rendering engine, its driver or
\* the diff toolchain is unavailable at that point, the gap is reported as an
\* explicit failure: the screenshot check is recorded fail (never left skip) and the
\* overall result is fail.
C17_GapIsExplicitFailure ==
    shotGap # "none" =>
        /\ results["screenshot"] = "fail"
        /\ rc # 0
        /\ pending # "ret0"
        /\ \A i \in 1..Len(written) :
              written[i]["screenshot"] = "fail" /\ written[i]["result"] = "fail"

\* C18: for every min_wait >= 0 the stability loop of capture declares stable at the
\* first 0.5 s poll at which the current frame is identical to the previous one and
\* min_wait has elapsed, without waiting for the ceiling; it never declares stable
\* before min_wait has elapsed, even when the first two frames are identical.
C18_StableAtFirstMatchAfterMinWait ==
    (fn.name = "capture" /\ loc.polls > 0) =>
        /\ loc.stable <=> (/\ loc.poll.prev # 0
                           /\ loc.poll.frame = loc.poll.prev
                           /\ loc.poll.at >= 2 * fn.min_wait)
        /\ loc.stable => /\ pc # "cap_loop"
                         /\ loc.now = loc.poll.at
                         /\ loc.now >= 2 * fn.min_wait
                         /\ loc.polls >= 2
        /\ (~loc.stable /\ ~loc.raised) => loc.now = loc.poll.at + 1

C18_Witness ==
    /\ fn.name = "capture"
    /\ fn.min_wait = 2
    /\ loc.stable
    /\ loc.now = 4
    /\ pc = "cap_save"

C20_VerifyPassesIffAllChecksHold ==
    (pc = "fn_done" /\ fn.name = "verify") =>
        LET notBlank == fn.std >= 3
            hasUi == fn.edges >= 5
            baselineOk == fn.baseline # "none" =>
                              (fn.baseline = "readable" /\ fn.score >= 95)
        IN /\ ret.passed <=> (fn.readable /\ notBlank /\ hasUi /\ baselineOk)
           /\ ~ret.passed =>
                 ret.message =
                     IF ~fn.readable THEN "Cannot read image"
                     ELSE IF ~notBlank THEN "Image is blank"
                     ELSE IF ~hasUi THEN "No UI elements"
                     ELSE IF fn.baseline = "unreadable" THEN "Cannot read baseline"
                     ELSE "SSIM below threshold"

\* ---------------------------------------------------------------------------
\* ci_run.run called directly: the CI pipeline over its stages
\* ---------------------------------------------------------------------------

\* the stages in the order ci_run.run calls them
StageOrder == <<"prepare", "build", "test", "push", "sbom">>

\* what a stage's run() can return: prepare.run and test.run return an int;
\* build.run, push.run and sbom.run return None, which is 0 here (both are falsy
\* in `if rc and rc != 0`)
StageCodes == {0, 1, 2}

\* `if rc and rc != 0` (lines 46, 58, 73, 80) and `if rc != 0` (line 40)
StageFailed_Never(code) == FALSE
StageFailed(code) == code # 0

CiRunArgs ==
    [name : {"ci_run.run"}, prepare : BOOLEAN, has_json_output : BOOLEAN, is_pr : BOOLEAN]

InitCiRun ==
    /\ fn \in CiRunArgs
    /\ loc = [invoked |-> <<>>, json_output |-> fn.has_json_output]
    /\ ret = [returned |-> FALSE, raised |-> FALSE, code |-> 0]
    /\ pc = "fn_call"
    /\ NoRun

\* one stage's run() is called at `at`; it raises, or returns a code: a failing
\* code is returned by ci_run.run at once, otherwise the pipeline goes on to `next`
CallStage(stage, at, next) ==
    /\ pc = at
    /\ \E raised \in BOOLEAN, code \in StageCodes :
        /\ raised => code = 0
        /\ loc' = [loc EXCEPT !.invoked = Append(@, [stage |-> stage, code |-> code,
                                                      raised |-> raised])]
        /\ IF raised
           THEN /\ ret' = [ret EXCEPT !.raised = TRUE]
                /\ pc' = "fn_done"
           ELSE IF StageFailed(code)
           THEN /\ ret' = [ret EXCEPT !.returned = TRUE, !.code = code]
                /\ pc' = "fn_done"
           ELSE /\ pc' = next
                /\ UNCHANGED ret
    /\ UNCHANGED <<fn, runVars>>

\* lines 38-41: `if getattr(args, "prepare", False)`
CiPrepare ==
    /\ fn.name = "ci_run.run"
    /\ IF fn.prepare
       THEN CallStage("prepare", "fn_call", "ci_build")
       ELSE /\ pc = "fn_call"
            /\ pc' = "ci_build"
            /\ UNCHANGED <<fn, loc, ret, runVars>>

\* lines 44-48
CiBuild == CallStage("build", "ci_build", "ci_test")

\* lines 51-60: json_output defaults to "cit-result.json" when args has none
CiTest ==
    /\ pc = "ci_test"
    /\ \E raised \in BOOLEAN, code \in StageCodes :
        /\ raised => code = 0
        /\ loc' = [invoked |-> Append(loc.invoked, [stage |-> "test", code |-> code,
                                                     raised |-> raised]),
                   json_output |-> TRUE]
        /\ IF raised
           THEN /\ ret' = [ret EXCEPT !.raised = TRUE]
                /\ pc' = "fn_done"
           ELSE IF StageFailed(code)
           THEN /\ ret' = [ret EXCEPT !.returned = TRUE, !.code = code]
                /\ pc' = "fn_done"
           ELSE /\ pc' = "ci_pr"
                /\ UNCHANGED ret
    /\ UNCHANGED <<fn, runVars>>

\* lines 63-68: `if backend.is_pr(): ... return 0`
CiDetectPr ==
    /\ pc = "ci_pr"
    /\ IF fn.is_pr
       THEN /\ ret' = [ret EXCEPT !.returned = TRUE, !.code = 0]
            /\ pc' = "fn_done"
       ELSE /\ pc' = "ci_push"
            /\ UNCHANGED ret
    /\ UNCHANGED <<fn, loc, runVars>>

\* lines 71-75
CiPush == CallStage("push", "ci_push", "ci_sbom")

\* lines 78-85
CiSbom ==
    \/ CallStage("sbom", "ci_sbom", "ci_ret")
    \/ /\ pc = "ci_ret"
       /\ ret' = [ret EXCEPT !.returned = TRUE, !.code = 0]
       /\ pc' = "fn_done"
       /\ UNCHANGED <<fn, loc, runVars>>

NextCiRun ==
    \/ CiPrepare
    \/ CiBuild
    \/ CiTest
    \/ CiDetectPr
    \/ CiPush
    \/ CiSbom

SpecCiRun == InitCiRun /\ [][NextCiRun]_vars

StageInvoked(stage) == \E i \in 1..Len(loc.invoked) : loc.invoked[i].stage = stage

\* the stage at position i of the invocations did not return success
StageNotOk(i) == loc.invoked[i].raised \/ loc.invoked[i].code # 0

\* C22: ci_run.run invokes the stages in the fixed order (optional prepare) -> build ->
\* test -> push -> sbom; a stage is invoked only if every earlier stage returned
\* success; the first failing stage's code is returned and no later stage runs; push
\* and sbom are never invoked when the test stage failed or the build is a pull request.
C22_PipelineOrder ==
    LET inv == loc.invoked
        first == IF fn.prepare THEN 1 ELSE 2
    IN /\ \A i \in 1..Len(inv) : inv[i].stage = StageOrder[first + i - 1]
       /\ \A i \in 1..Len(inv) : \A j \in 1..(i - 1) : ~StageNotOk(j)
       /\ fn.is_pr => ~StageInvoked("push") /\ ~StageInvoked("sbom")
       /\ (\E i \in 1..Len(inv) : inv[i].stage = "test" /\ StageNotOk(i)) =>
              ~StageInvoked("push") /\ ~StageInvoked("sbom")
       /\ pc = "fn_done" =>
              /\ ret.returned # ret.raised
              /\ ret.raised <=> (inv # <<>> /\ inv[Len(inv)].raised)
              /\ ret.returned /\ ret.code # 0 =>
                     inv # <<>> /\ inv[Len(inv)].code = ret.code
              /\ ret.returned /\ ret.code = 0 =>
                     /\ \A i \in 1..Len(inv) : ~StageNotOk(i)
                     /\ StageInvoked("test")
                     /\ ~fn.is_pr => StageInvoked("sbom")

C22_Witness ==
    /\ pc = "fn_done"
    /\ fn.prepare
    /\ ~fn.is_pr
    /\ Len(loc.invoked) = 4
    /\ loc.invoked[4].stage = "push"
    /\ loc.invoked[4].code = 2
    /\ ret.returned
    /\ ret.code = 2

\* ---------------------------------------------------------------------------
\* config._parse_test_config called directly, then _resolve_mode on what it loaded
\* ---------------------------------------------------------------------------

\* `x-daemonless: healthcheck:` of compose.yaml: absent, or a mapping whose `port`
\* may be missing (0) and whose `path` key may be missing
HealthcheckMetas ==
    {[present |-> FALSE, port |-> 0, has_path |-> FALSE]} \cup
    [present : {TRUE}, port : {0, 9191}, has_path : BOOLEAN]

\* `health.get("path", "/")` (line 382)
HealthcheckPath(meta) == IF meta.has_path THEN "/hc" ELSE "/"

\* the cit: section (mode, port, health, and whether it holds any other key or any
\* annotation) and the compose.yaml metadata
ParseArgs ==
    [name : {"_parse_test_config"}, mode : Modes \cup {""}, port : TestPorts,
     health : TestHealths, other_keys : BOOLEAN, annotations : BOOLEAN,
     healthcheck : HealthcheckMetas]

\* `not cit`: the cit: section is missing or empty
CitEmpty(a) ==
    a.mode = "" /\ a.port = 0 /\ a.health = "" /\ ~a.other_keys /\ ~a.annotations

\* lines 347-419; the result is None (none = TRUE) or the TestConfig
ParseTestConfig(a) ==
    LET hc == a.healthcheck
        p == IF hc.present /\ a.port = 0 THEN hc.port ELSE a.port
        h == IF hc.present /\ a.health = "" THEN HealthcheckPath(hc) ELSE a.health
        m == IF hc.present /\ a.mode = ""
             THEN IF p # 0 THEN "http" ELSE "none"
             ELSE a.mode
    IN [none |-> m = "" /\ p = 0 /\ ~a.annotations /\ CitEmpty(a),
        mode |-> m, port |-> p, health |-> h]

InitParse ==
    /\ fn \in ParseArgs
    /\ loc = [effective |-> ""]
    /\ ret = [none |-> TRUE, mode |-> "", port |-> 0, health |-> ""]
    /\ pc = "fn_call"
    /\ NoRun

CallParseTestConfig ==
    /\ pc = "fn_call"
    /\ fn.name = "_parse_test_config"
    /\ ret' = ParseTestConfig(fn)
    /\ pc' = "fn_done"
    /\ UNCHANGED <<fn, loc, runVars>>

\* test.py lines 463-482 on the loaded configuration: the labels are merged in and
\* _resolve_mode computes the effective mode
CallResolveLoaded ==
    /\ pc = "fn_done"
    /\ ~ret.none
    /\ \E labelPort \in LabelPorts, labelHealth \in LabelHealths,
          baseline \in BOOLEAN, depsMissing \in BOOLEAN :
        loc' = [effective |-> ResolveMode(ret.mode, OrInt(ret.port, labelPort),
                                          OrStr(ret.health, labelHealth),
                                          baseline, depsMissing)]
    /\ pc' = "resolved"
    /\ UNCHANGED <<fn, ret, runVars>>

NextParse ==
    \/ CallParseTestConfig
    \/ CallResolveLoaded

SpecParse == InitParse /\ [][NextParse]_vars

\* C24: every TestConfig that _parse_test_config can produce has a mode that is one
\* of "", shell, port, health, screenshot, so that the effective mode computed by
\* _resolve_mode for a loaded configuration is always one of shell, port, health,
\* screenshot.
C24_LoadedModeIsValid ==
    /\ (pc \in {"fn_done", "resolved"} /\ ~ret.none) => ret.mode \in Modes \cup {""}
    /\ pc = "resolved" => loc.effective \in Modes

\* a teardown call made by `bys` for the target `entry`
CallFor(entry, bys) ==
    \E k \in 1..Len(calls) :
        /\ calls[k].by \in bys
        /\ \/ calls[k].op = "compose_down" /\ entry.compose_file # 0
                 /\ calls[k].arg = entry.compose_file
           \/ calls[k].op \in {"stop", "rm"} /\ entry.container_name # 0
                 /\ calls[k].arg = entry.container_name

\* C21: destroying the same CleanupTarget a second time is a no-op: after a target has
\* been torn down and deregistered by the run's own teardown, or after one
\* _emergency_cleanup has run, a further _emergency_cleanup (second signal or
\* exit-time hook) invokes no stop, rm or compose_down for it and raises no error.
C21_SecondDestroyIsNoOp ==
    /\ \A entry \in loc.owned : ~CallFor(entry, {"handler", "atexit"})
    /\ pc = "ec_again" =>
          /\ Len(calls) = loc.before
          /\ \A k \in 1..Len(calls) : calls[k].by # "atexit"
          /\ pending = "none"
          /\ registry = <<>>

C21_Witness ==
    /\ pc = "ec_again"
    /\ loc.owned # {}
    /\ Len(ecInput) >= 2
    /\ raises[1] # "none"
    /\ CallFor(ecInput[2], {"handler"})
    /\ \A entry \in loc.owned : CallFor(entry, {"run"})

\* the variants the filter lets through
MatchingVariants == {x \in Variants : variant_filter = 0 \/ x = variant_filter}

\* the return code of the i-th call of _test_variant (defined once it has returned)
LoggedCode(i) == IF variantLog[i].ended = "ret0" THEN 0 ELSE 1

\* the process is ending and no SIGTERM cut the run short
RunOver == pc \in {"exiting", "exited"} /\ ~signalled

\* C23: test.run invokes _test_variant once for every configured variant that matches
\* the variant filter, in configuration order, and keeps testing the remaining
\* variants after one has failed; it returns 0 if and only if every tested variant
\* passed, and otherwise the return code of the first variant that failed.
C23_EveryMatchingVariantTested ==
    /\ \A i \in 1..Len(variantLog) :
          /\ variantLog[i].variant \in MatchingVariants
          /\ \A j \in 1..(i - 1) : variantLog[j].variant < variantLog[i].variant
    /\ RunOver =>
          /\ {variantLog[i].variant : i \in 1..Len(variantLog)} = MatchingVariants
          /\ \A i \in 1..Len(variantLog) : variantLog[i].ended \in {"ret0", "ret1"}
          /\ exitStatus = 0 <=> \A i \in 1..Len(variantLog) : variantLog[i].ended = "ret0"
          /\ \A i \in 1..Len(variantLog) :
                (LoggedCode(i) # 0 /\ \A j \in 1..(i - 1) : LoggedCode(j) = 0)
                    => exitStatus = LoggedCode(i)

\* C25: the assertions in _test_variant always hold: for every TestConfig with a mode
\* in {"", shell, port, health, screenshot}, with or without the compose flag, and for
\* any labels, the port is defined whenever the port check is reached and the health
\* path is defined whenever the health check is reached (no run ends in an
\* AssertionError).
C25_AssertionsHold ==
    /\ pending # "AssertionError"
    /\ pc = "port" => port # 0
    /\ pc = "health" => health # ""

\* C26: in every run, standalone or stack, no check ranked above the effective mode
\* is ever executed: with effective mode shell no port, health or screenshot check
\* runs, with port no health or screenshot check runs, with health no screenshot
\* check runs.
C26_NoCheckAboveMode ==
    \A c \in executed : mode \in Modes /\ CheckRank(c) <= ModeRank(mode)

\* the statuses d of the checks follow the ladder order, for a run in stack mode or not
FollowsLadder(d, isCompose) ==
    /\ \A c \in Modes : d[c] \in {"pass", "fail"} =>
          \A l \in Modes : CheckRank(l) < CheckRank(c) =>
              \/ d[l] = "pass"
              \/ l = "shell" /\ d[l] = "skip" /\ isCompose
    /\ Cardinality({c \in Checks : d[c] = "fail"}) <= 1
    /\ \A f \in Modes : d[f] = "fail" =>
          \A c \in Modes : CheckRank(c) > CheckRank(f) => d[c] = "skip"
    /\ d["verify"] = "pass" <=> d["screenshot"] = "pass"

\* C27: in every TestResult the check statuses follow the ladder order shell < port <
\* health < screenshot: a check is pass or fail only if every lower check is pass
\* (shell alone may be skip, and only in stack mode), at most one check is fail and
\* every check above it is skip; verify is pass exactly when screenshot is pass; and
\* the overall result is pass only if no check is fail.
C27_StatusesFollowLadder ==
    /\ FollowsLadder(results, test.compose)
    /\ rc = 0 => \A c \in Checks : results[c] # "fail"
    /\ \A i \in 1..Len(written) :
          /\ FollowsLadder(written[i], test.compose)
          /\ written[i]["result"] = "pass" => \A c \in Checks : written[i][c] # "fail"

C27_Witness ==
    /\ written # <<>>
    /\ test.compose
    /\ written[1]["shell"] = "skip"
    /\ written[1]["port"] = "pass"
    /\ written[1]["health"] = "fail"
    /\ written[1]["screenshot"] = "skip"
    /\ written[1]["result"] = "fail"

\* ceil(a / b)
CeilDiv(a, b) == (a + b - 1) \div b

\* C28: assuming every call to the workload runtime returns, every run with a finite
\* wait-timeout terminates in DONE or FAILED and then performs teardown: the ready
\* wait makes at most ceil(wait/3) polls, the port check at most wait attempts and the
\* health check at most ceil(wait/2) attempts, each loop checking its own deadline.
\* (elapsed is the loop's own counter: interval times the polls that have failed.)
C28_BoundedLoopsThenTeardown ==
    /\ pc = "ready" => elapsed \div ReadyPollInterval <= CeilDiv(test.wait, ReadyPollInterval)
    /\ pc = "port" => elapsed \div PortPollInterval <= test.wait
    /\ pc = "health" =>
          elapsed \div HealthPollInterval <= CeilDiv(test.wait, HealthPollInterval)
    /\ (pc = "var_exit" /\ v \in everRegistered /\ ~signalled) =>
          /\ rc \in {0, 1}
          /\ TeardownPerformed(v, {"run"})

\* run() has returned to cli.main (no exception left it and no SIGTERM was handled)
RunReturned == pc \in {"exiting", "exited"} /\ ~signalled /\ pending = "none"

\* C29: when a result artifact path is given and test.run tests one or more variants,
\* the artifact left on disk after run returns agrees with run's return code:
\* whenever run returns non-zero the artifact's result field is fail, and whenever
\* run returns 0 it is pass.
C29_ArtifactAgreesWithReturnCode ==
    (RunReturned /\ json_output /\ tested >= 1) =>
        /\ exitStatus # 0 => artifact.result = "fail"
        /\ exitStatus = 0 => artifact.result = "pass"

\* C30: a failure while writing the result artifact (the write raising) does not
\* prevent the run's own teardown: the workload is still stopped and removed (or the
\* stack torn down) and the CleanupTarget deregistered before _test_variant exits.
C30_WriteFailureKeepsTeardown ==
    (pc = "var_exit" /\ pending = "OSError" /\ ~signalled) =>
        /\ TeardownPerformed(v, {"run"})
        /\ ~InRegistry(registry, CleanupEntry(test.compose, v))
====
